---- MODULE Spec2Model ----
(***************************************************************************)
(* A model of src/src/parseHiCFile.cpp: the reader of .hic contact-matrix  *)
(* files (parseHiCFile, readHeader, readFooter, readMatrix, readBlock).    *)
(*                                                                         *)
(* The file is a sequence of cells, one cell per byte.  A fixed-width      *)
(* field of width w occupies w cells: the first holds the field's value,   *)
(* the others hold 0.  A string is its character codes followed by a 0     *)
(* cell.  The stream cursor is a byte offset (0-based), as in the code.    *)
(* A float below 2^24 in magnitude is held as twice its value (a count of   *)
(* halves); a larger float has no fraction and is held as its value.       *)
(*                                                                         *)
(* zlib is not modelled bit by bit: the variable zstreams says which       *)
(* compressed image inflates to which bytes.                               *)
(***************************************************************************)
EXTENDS Integers, Sequences, FiniteSets, TLC

VARIABLES
  input,       \* the description the file under test was laid out from
  file,        \* the bytes of the file (fin's contents)
  zstreams,    \* what each compressed image in the file inflates to
  resolution,  \* parseHiCFile's argument
  info,        \* struct hicInfo
  output,      \* struct outputStr: the accumulator, one record per index
  cursor,      \* fin's position
  failbit,     \* fin's failbit: a read came up short
  pc,          \* where the call is
  outcome,     \* how parseHiCFile ended
  footer,      \* readFooter's locals
  matrix,      \* readMatrix's locals
  uncompressedBytes  \* readBlock's inflated buffer (the last one)

vars == <<input, file, zstreams, resolution, info, output, cursor, failbit,
          pc, outcome, footer, matrix, uncompressedBytes>>

----------------------------------------------------------------------------
(* Program constants *)

SIZE_OF_CHAR == 1
SIZE_OF_SHORT == 2
SIZE_OF_INT == 4
SIZE_OF_FLOAT == 4
SIZE_OF_LONG == 8
\* uncompressedBytes = new char[size*10]
BufferFactor == 10
\* versions below this one are refused
MinVersion == 6
\* from this version on a block has a header and a representation type
BlockHeaderVersion == 7
\* the 16-bit "missing" marker of the dense representation
ShortSentinel == -32768
\* the integer the float branch compares against (0x7fc00000)
FloatSentinel == 2143289344
\* the value of selectedResolutionId when nothing matched
NotFound == -1
\* the footer position that marks an absent matrix
AbsentPosition == -1

----------------------------------------------------------------------------
(* Bounds of the inputs *)

\* longest resolution list of a header
MaxResolutions == 2
\* most index entries of a footer
MaxEntries == 2
\* most bytes missing from the end of the file
MaxCut == 1
\* most rows of a list-of-rows block, most columns of a row
MaxRows == 2
MaxColumns == 2
\* most points of a dense block
MaxPoints == 5

----------------------------------------------------------------------------
(* Sequences *)

Range(s) == {s[i] : i \in 1..Len(s)}

Take(s, n) == SubSeq(s, 1, IF n < Len(s) THEN n ELSE Len(s))

RECURSIVE Concat(_)
Concat(ss) == IF ss = <<>> THEN <<>> ELSE Head(ss) \o Concat(Tail(ss))

RECURSIVE SumLen(_)
SumLen(ss) == IF ss = <<>> THEN 0 ELSE Len(Head(ss)) + SumLen(Tail(ss))

\* all sequences over S of length lo..hi
SeqsOf(S, lo, hi) == UNION {[1..n -> S] : n \in lo..hi}

\* all sequences over S without repetition, of length 0..hi
Arrangements(S, hi) ==
  {s \in SeqsOf(S, 0, hi) : \A i, j \in 1..Len(s) : i # j => s[i] # s[j]}

----------------------------------------------------------------------------
(* The byte stream: what std::istream::read and getline do on the cells *)

\* a field of width w holding v
Field(v, w) == <<v>> \o [k \in 1..(w - 1) |-> 0]

\* a null-terminated string
CString(str) == str \o <<0>>

\* read(&x, w) at offset p succeeds when w bytes are there
Readable(f, p, w) == p >= 0 /\ p + w <= Len(f)

\* the value read(&x, w) stores at offset p
FieldAt(f, p) == f[p + 1]

\* the offset of the first 0 cell at or after p, or -1
TerminatorFrom(f, p) ==
  IF p >= 0 /\ \E q \in p..(Len(f) - 1) : f[q + 1] = 0
  THEN CHOOSE q \in p..(Len(f) - 1) :
         f[q + 1] = 0 /\ \A r \in p..(q - 1) : f[r + 1] # 0
  ELSE -1

\* getline(fin, str, '\0') at offset p: the string and the offset after its 0
GetLine(f, p) ==
  LET q == TerminatorFrom(f, p)
  IN  IF q = -1 THEN [ok |-> FALSE, str |-> <<>>, next |-> Len(f)]
      ELSE [ok |-> TRUE, str |-> SubSeq(f, p + 1, q), next |-> q + 1]

----------------------------------------------------------------------------
(* Character codes of the strings the files use *)

MagicHIC == <<72, 73, 67>>
NameALL == <<65, 76, 76>>
NameAll == <<65, 108, 108>>
NameChr == <<99, 49>>
NameOther == <<99, 50>>
UnitBP == <<66, 80>>
GenomeId == <<104, 103>>
BadMagic == <<72, 73, 88>>

----------------------------------------------------------------------------
(* readHeader *)

readMagicString(f) ==
  LET line == GetLine(f, 0)
  IN  [ok |-> line.ok /\ Len(line.str) >= 3
                /\ line.str[1] = 72 /\ line.str[2] = 73 /\ line.str[3] = 67,
       next |-> line.next]

\* the attribute-value dictionary, read and ignored: the offset after it
RECURSIVE SkipAttributes(_, _, _, _)
SkipAttributes(f, p, i, totalAttributes) ==
  IF i >= totalAttributes THEN p
  ELSE SkipAttributes(f, GetLine(f, GetLine(f, p).next).next, i + 1,
                      totalAttributes)

\* the chromosome table: names, lengths and the offset after it
RECURSIVE ReadChromosomes(_, _, _, _)
ReadChromosomes(f, p, i, totalChromosomes) ==
  IF i >= totalChromosomes
  THEN [names |-> <<>>, lengths |-> <<>>, next |-> p]
  ELSE LET name == GetLine(f, p)
           length == FieldAt(f, name.next)
           rest == ReadChromosomes(f, name.next + SIZE_OF_INT, i + 1,
                                   totalChromosomes)
       IN  [names |-> <<name.str>> \o rest.names,
            lengths |-> <<length>> \o rest.lengths,
            next |-> rest.next]

\* a mutation of SelectStep: keep the first match
SelectStepFirst(selected, i, value, requested) ==
  IF value = requested /\ selected = NotFound THEN i ELSE selected

\* one turn of the resolution loop: the index is overwritten on every match
SelectStep(selected, i, value, requested) ==
  IF value = requested THEN i ELSE selected

RECURSIVE ReadResolutions(_, _, _, _, _, _)
ReadResolutions(f, p, i, totalResolutions, requested, selected) ==
  IF i >= totalResolutions
  THEN [available |-> <<>>, selected |-> selected, next |-> p]
  ELSE LET value == FieldAt(f, p)
           rest == ReadResolutions(f, p + SIZE_OF_INT, i + 1,
                     totalResolutions, requested,
                     SelectStep(selected, i, value, requested))
       IN  [available |-> <<value>> \o rest.available,
            selected |-> rest.selected,
            next |-> rest.next]

\* readHeader on a file whose header is whole
readHeader(f, requested) ==
  LET magic == readMagicString(f)
      version == FieldAt(f, magic.next)
      pMaster == magic.next + SIZE_OF_INT
      master == FieldAt(f, pMaster)
      genome == GetLine(f, pMaster + SIZE_OF_LONG)
      totalAttributes == FieldAt(f, genome.next)
      pChromosomes == SkipAttributes(f, genome.next + SIZE_OF_INT, 0,
                                     totalAttributes)
      totalChromosomes == FieldAt(f, pChromosomes)
      table == ReadChromosomes(f, pChromosomes + SIZE_OF_INT, 0,
                               totalChromosomes)
      totalResolutions == FieldAt(f, table.next)
      list == ReadResolutions(f, table.next + SIZE_OF_INT, 0,
                              totalResolutions, requested, NotFound)
      blank == [version |-> 0, master |-> 0, chromosomes |-> <<>>,
                chromosomeLengths |-> <<>>, availableResolutions |-> <<>>,
                selectedResolutionId |-> NotFound,
                firstChromosomeIsAll |-> FALSE]
  IN  IF ~magic.ok
      THEN [status |-> "InvalidFormat", next |-> magic.next, info |-> blank]
      ELSE IF version < MinVersion
      THEN [status |-> "UnsupportedVersion", next |-> pMaster,
            info |-> [blank EXCEPT !.version = version]]
      ELSE [status |-> "ok", next |-> list.next,
            info |-> [version |-> version, master |-> master,
                      chromosomes |-> table.names,
                      chromosomeLengths |-> table.lengths,
                      availableResolutions |-> list.available,
                      selectedResolutionId |-> list.selected,
                      firstChromosomeIsAll |->
                        (table.names[1] = NameALL \/ table.names[1] = NameAll)]]

----------------------------------------------------------------------------
(* readBlock: the inflated buffer and its decoding *)

\* the bytes a compressed image of the file consists of
Image(z, csize) == [k \in 1..csize |-> 100 * z + k]

\* inflate() on `size` bytes that were all read from the file: the image's
\* bytes, as many as fit in the size*10 buffer; nothing when the bytes are no
\* zlib stream
Inflate(bytes, size, streams) ==
  IF \E z \in DOMAIN streams : bytes = Image(z, streams[z].csize)
  THEN LET z == CHOOSE z \in DOMAIN streams : bytes = Image(z, streams[z].csize)
       IN  Take(streams[z].payload, size * BufferFactor)
  ELSE <<>>

\* the buffers inflate() can leave when the read came up short: the image's
\* first bytes were read (the others are whatever the heap held), so any
\* prefix of what the image inflates to; nothing when no byte was read
ShortInflate(bytes, position, size, streams) ==
  IF bytes # <<>>
     /\ \E z \in DOMAIN streams :
          bytes = Take(Image(z, streams[z].csize), Len(bytes))
  THEN LET z == CHOOSE z \in DOMAIN streams :
                  bytes = Take(Image(z, streams[z].csize), Len(bytes))
           whole == Take(streams[z].payload, size * BufferFactor)
       IN  {Take(whole, n) : n \in 0..Len(whole)}
  ELSE {<<>>}

\* the values an uninitialised local can hold in the model
GarbageValues == {-1, 0, 1}

\* bufferin.read(&x, w): the value, and bufferin's position and state after.
\* A short read leaves x as it was, uninitialised: g stands for its value.
BufRead(buf, st, w, g) ==
  IF st.ok /\ st.p + w <= Len(buf)
  THEN [v |-> buf[st.p + 1], st |-> [p |-> st.p + w, ok |-> TRUE]]
  ELSE [v |-> g, st |-> [p |-> st.p, ok |-> FALSE]]

\* float to int, as counts.push_back(count) converts: towards zero
FloatToInt(h) ==
  IF h >= 33554432 \/ h <= -33554432 THEN h
  ELSE IF h >= 0 THEN h \div 2 ELSE -((-h) \div 2)

\* i / w of C for i >= 0 and w # 0: towards zero
CDiv(i, w) == IF w > 0 THEN i \div w ELSE -(i \div (-w))

\* version < 7: binX, binY, count triples
RECURSIVE ReadTriples(_, _, _, _, _)
ReadTriples(buf, st, i, totalRecords, g) ==
  IF i >= totalRecords THEN <<>>
  ELSE LET binX == BufRead(buf, st, SIZE_OF_INT, g)
           binY == BufRead(buf, binX.st, SIZE_OF_INT, g)
           count == BufRead(buf, binY.st, SIZE_OF_FLOAT, g)
       IN  <<[bin1 |-> binX.v, bin2 |-> binY.v,
              count |-> FloatToInt(count.v)]>>
           \o ReadTriples(buf, count.st, i + 1, totalRecords, g)

\* a mutation of ListBinX: the block's x offset is forgotten
ListBinXNoOffset(binXOffset, x) == x

\* binX = binXOffset + x
ListBinX(binXOffset, x) == binXOffset + x

\* the columns of one row of the list-of-rows representation
RECURSIVE ReadColumns(_, _, _, _, _, _, _, _)
ReadColumns(buf, st, j, totalColumns, binXOffset, binY, useShort, g) ==
  IF j >= totalColumns THEN [bins |-> <<>>, st |-> st]
  ELSE LET x == BufRead(buf, st, SIZE_OF_SHORT, g)
           binX == ListBinX(binXOffset, x.v)
           c == BufRead(buf, x.st,
                        IF useShort = 0 THEN SIZE_OF_SHORT ELSE SIZE_OF_FLOAT,
                        g)
           count == IF useShort = 0 THEN c.v ELSE FloatToInt(c.v)
           rest == ReadColumns(buf, c.st, j + 1, totalColumns, binXOffset,
                               binY, useShort, g)
       IN  [bins |-> <<[bin1 |-> binX, bin2 |-> binY, count |-> count]>>
                       \o rest.bins,
            st |-> rest.st]

RECURSIVE ReadRows(_, _, _, _, _, _, _, _)
ReadRows(buf, st, i, totalRows, binXOffset, binYOffset, useShort, g) ==
  IF i >= totalRows THEN <<>>
  ELSE LET y == BufRead(buf, st, SIZE_OF_SHORT, g)
           binY == y.v + binYOffset
           totalColumns == BufRead(buf, y.st, SIZE_OF_SHORT, g)
           columns == ReadColumns(buf, totalColumns.st, 0, totalColumns.v,
                                  binXOffset, binY, useShort, g)
       IN  columns.bins
           \o ReadRows(buf, columns.st, i + 1, totalRows, binXOffset,
                       binYOffset, useShort, g)

\* a mutation of DenseKept: the sentinel test is dropped
DenseKeptAlways(useShort, value) == TRUE

\* whether a point of the dense representation is emitted
DenseKept(useShort, value) ==
  IF useShort = 0 THEN value # ShortSentinel ELSE value # FloatSentinel

\* column = i - row * w
DenseColumn(i, w) == i - CDiv(i, w) * w

\* the points of the dense representation, w # 0
RECURSIVE ReadDense(_, _, _, _, _, _, _, _, _)
ReadDense(buf, st, i, totalPoints, w, binXOffset, binYOffset, useShort, g) ==
  IF i >= totalPoints THEN <<>>
  ELSE LET row == CDiv(i, w)
           column == DenseColumn(i, w)
           c == BufRead(buf, st,
                        IF useShort = 0 THEN SIZE_OF_SHORT ELSE SIZE_OF_FLOAT,
                        g)
           count == IF useShort = 0 THEN c.v ELSE FloatToInt(c.v)
       IN  (IF DenseKept(useShort, c.v)
            THEN <<[bin1 |-> binXOffset + column, bin2 |-> binYOffset + row,
                    count |-> count]>>
            ELSE <<>>)
           \o ReadDense(buf, c.st, i + 1, totalPoints, w, binXOffset,
                        binYOffset, useShort, g)

\* the decoding of the inflated buffer: how it ends and the bins it gives.
\* reserve() of a negative count throws std::length_error; a dense block of
\* stride 0 divides by zero.
DecodeBlock(buf, version, g) ==
  LET totalRecords == BufRead(buf, [p |-> 0, ok |-> TRUE], SIZE_OF_INT, g)
      binXOffset == BufRead(buf, totalRecords.st, SIZE_OF_INT, g)
      binYOffset == BufRead(buf, binXOffset.st, SIZE_OF_INT, g)
      useShort == BufRead(buf, binYOffset.st, SIZE_OF_CHAR, g)
      type == BufRead(buf, useShort.st, SIZE_OF_CHAR, g)
      totalRows == BufRead(buf, type.st, SIZE_OF_SHORT, g)
      totalPoints == BufRead(buf, type.st, SIZE_OF_INT, g)
      w == BufRead(buf, totalPoints.st, SIZE_OF_SHORT, g)
  IN  IF totalRecords.v < 0
      THEN [status |-> "LengthError", bins |-> <<>>]
      ELSE IF version < BlockHeaderVersion
      THEN [status |-> "ok",
            bins |-> ReadTriples(buf, totalRecords.st, 0, totalRecords.v, g)]
      ELSE IF type.v = 1
      THEN [status |-> "ok",
            bins |-> ReadRows(buf, totalRows.st, 0, totalRows.v, binXOffset.v,
                              binYOffset.v, useShort.v, g)]
      ELSE IF type.v = 2
      THEN IF totalPoints.v > 0 /\ w.v = 0
           THEN [status |-> "Crashed", bins |-> <<>>]
           ELSE [status |-> "ok",
                 bins |-> ReadDense(buf, w.st, 0, totalPoints.v, w.v,
                                    binXOffset.v, binYOffset.v, useShort.v, g)]
      ELSE [status |-> "ok", bins |-> <<>>]

\* chromosomeIds = vector(bins1.size(), chromosomeId): the records of a block
Tagged(bins, chromosomeId) ==
  [k \in 1..Len(bins) |->
     [chromosome |-> chromosomeId, bin1 |-> bins[k].bin1,
      bin2 |-> bins[k].bin2, count |-> bins[k].count]]

\* a mutation of Append: the accumulator is overwritten
InsertOverwrites(out, records) == records

\* output.x.insert(output.x.end(), ...)
InsertAtEnd(out, records) == out \o records

----------------------------------------------------------------------------
(* The files under test: how a description is laid out in bytes.  The      *)
(* layout is the one the readers expect, field by field.                   *)

\* what a block of a description holds, entry by entry, in stream order:
\* the relative x and y and the stored value
ListEntries(d) ==
  Concat([i \in 1..Len(d.rows) |->
            [j \in 1..Len(d.rows[i].columns) |->
               [x |-> d.rows[i].columns[j].x, y |-> d.rows[i].y,
                c |-> d.rows[i].columns[j].c]]])

\* the stored value as the float cell of the version < 7 layout (in halves)
FloatCell(useShort, c) == IF useShort = 0 THEN 2 * c ELSE c

\* the bytes of a block in the version >= 7 layout
EncodeBlock7(d) ==
  Field(IF d.type = 1 THEN Len(ListEntries(d)) ELSE Len(d.points), SIZE_OF_INT)
  \o Field(d.binXOffset, SIZE_OF_INT) \o Field(d.binYOffset, SIZE_OF_INT)
  \o Field(d.useShort, SIZE_OF_CHAR) \o Field(d.type, SIZE_OF_CHAR)
  \o (IF d.type = 1
      THEN Field(Len(d.rows), SIZE_OF_SHORT)
           \o Concat([i \in 1..Len(d.rows) |->
                Field(d.rows[i].y, SIZE_OF_SHORT)
                \o Field(Len(d.rows[i].columns), SIZE_OF_SHORT)
                \o Concat([j \in 1..Len(d.rows[i].columns) |->
                     Field(d.rows[i].columns[j].x, SIZE_OF_SHORT)
                     \o Field(d.rows[i].columns[j].c,
                              IF d.useShort = 0 THEN SIZE_OF_SHORT
                              ELSE SIZE_OF_FLOAT)])])
      ELSE IF d.type = 2
      THEN Field(Len(d.points), SIZE_OF_INT) \o Field(d.w, SIZE_OF_SHORT)
           \o Concat([i \in 1..Len(d.points) |->
                Field(d.points[i],
                      IF d.useShort = 0 THEN SIZE_OF_SHORT ELSE SIZE_OF_FLOAT)])
      ELSE <<>>)

\* the bytes of a list-of-rows block's entries in the version < 7 layout
EncodeBlock6(d) ==
  LET entries == ListEntries(d)
  IN  Field(Len(entries), SIZE_OF_INT)
      \o Concat([k \in 1..Len(entries) |->
           Field(d.binXOffset + entries[k].x, SIZE_OF_INT)
           \o Field(d.binYOffset + entries[k].y, SIZE_OF_INT)
           \o Field(FloatCell(d.useShort, entries[k].c), SIZE_OF_FLOAT)])

EncodeBlock(d, version) ==
  IF version < BlockHeaderVersion THEN EncodeBlock6(d) ELSE EncodeBlock7(d)

\* the blocks of the files: a list-of-rows block of shorts (one count is the
\* dense sentinel), a dense block of stride 3 whose point 4 is the sentinel,
\* and a list-of-rows block of floats
Bodies ==
  << [csize |-> 8, type |-> 1, useShort |-> 0, binXOffset |-> 10,
      binYOffset |-> 20, w |-> 0, points |-> <<>>,
      rows |-> << [y |-> 0, columns |-> << [x |-> 0, c |-> 5],
                                           [x |-> 1, c |-> ShortSentinel] >>],
                  [y |-> 1, columns |-> << [x |-> 2, c |-> 7] >>] >>],
     [csize |-> 8, type |-> 2, useShort |-> 0, binXOffset |-> 30,
      binYOffset |-> 40, w |-> 3, rows |-> <<>>,
      points |-> <<1, 2, 3, 4, ShortSentinel, 6>>],
     [csize |-> 8, type |-> 1, useShort |-> 1, binXOffset |-> 50,
      binYOffset |-> 60, w |-> 0, points |-> <<>>,
      rows |-> << [y |-> 3, columns |-> << [x |-> 4, c |-> 5] >>] >>] >>

\* a dense block has no version < 7 layout: such files hold the others only
BodyIn(z, version) ==
  IF version < BlockHeaderVersion /\ Bodies[z].type # 1 THEN 1 ELSE z

\* what the images of a file of this version inflate to
StreamsOf(version) ==
  [z \in 1..Len(Bodies) |->
     [csize |-> Bodies[z].csize,
      payload |-> EncodeBlock(Bodies[BodyIn(z, version)], version)]]

\* the matrix regions of the files.  A block of a directory names a body and
\* how its pointer gives the size: "exact", "zero" or "negative".
Regions ==
  << [chromosomeId1 |-> 1, chromosomeId2 |-> 1,
      directories |->
        << [resIdx |-> 0, blocks |-> << [body |-> 1, size |-> "exact"] >>],
           [resIdx |-> 1, blocks |-> << [body |-> 2, size |-> "exact"],
                                        [body |-> 1, size |-> "zero"] >>] >>],
     [chromosomeId1 |-> 0, chromosomeId2 |-> 0,
      directories |->
        << [resIdx |-> 1, blocks |-> << [body |-> 3, size |-> "exact"] >>],
           [resIdx |-> 0, blocks |-> << [body |-> 2, size |-> "exact"] >>] >>],
     [chromosomeId1 |-> 0, chromosomeId2 |-> 1,
      directories |->
        << [resIdx |-> 0, blocks |-> << [body |-> 1, size |-> "exact"] >>],
           [resIdx |-> 1, blocks |-> << [body |-> 2, size |-> "exact"] >>] >>],
     [chromosomeId1 |-> 2, chromosomeId2 |-> 2,
      directories |->
        << [resIdx |-> 0, blocks |-> << [body |-> 2, size |-> "negative"] >>],
           [resIdx |-> 1, blocks |-> << [body |-> 3, size |-> "exact"] >>] >>] >>

\* the header, with the master offset given
HeaderBytes(d, master) ==
  CString(d.magic) \o Field(d.version, SIZE_OF_INT)
  \o Field(master, SIZE_OF_LONG) \o CString(GenomeId)
  \o Field(1, SIZE_OF_INT) \o CString(NameChr) \o CString(NameOther)
  \o Field(3, SIZE_OF_INT)
  \o CString(d.firstName) \o Field(100, SIZE_OF_INT)
  \o CString(NameChr) \o Field(200, SIZE_OF_INT)
  \o CString(NameOther) \o Field(300, SIZE_OF_INT)
  \o Field(Len(d.resolutions), SIZE_OF_INT)
  \o Concat([i \in 1..Len(d.resolutions) |->
               Field(d.resolutions[i], SIZE_OF_INT)])

\* the header is followed by a field the reader never reads (the count of
\* fragment resolutions); the footer starts after it
MasterOf(d) == Len(HeaderBytes(d, 0)) + SIZE_OF_INT

\* one index entry: key, position, size
EntryBytes(key, position, size) ==
  CString(<<48 + key>>) \o Field(position, SIZE_OF_LONG)
  \o Field(size, SIZE_OF_INT)

\* the offset of body z, the bodies starting at bodiesStart
BodyOffset(z, bodiesStart) ==
  bodiesStart + SumLen([k \in 1..(z - 1) |-> Image(k, Bodies[k].csize)])

\* the size a block pointer gives
PointerSize(block) ==
  IF block.size = "exact" THEN Bodies[block.body].csize
  ELSE IF block.size = "zero" THEN 0 ELSE -1

\* one directory's fields up to and including its block count
DirectoryHead(dir) ==
  CString(UnitBP) \o Field(dir.resIdx, SIZE_OF_INT)
  \o Field(0, SIZE_OF_FLOAT) \o Field(0, SIZE_OF_FLOAT)
  \o Field(0, SIZE_OF_FLOAT) \o Field(0, SIZE_OF_FLOAT)
  \o Field(5, SIZE_OF_INT) \o Field(1, SIZE_OF_INT) \o Field(1, SIZE_OF_INT)
  \o Field(Len(dir.blocks), SIZE_OF_INT)

\* one block pointer: id, position, size
PointerBytes(k, block, bodiesStart) ==
  Field(k, SIZE_OF_INT)
  \o Field(BodyOffset(block.body, bodiesStart), SIZE_OF_LONG)
  \o Field(PointerSize(block), SIZE_OF_INT)

DirectoryBytes(dir, bodiesStart) ==
  DirectoryHead(dir)
  \o Concat([k \in 1..Len(dir.blocks) |->
               PointerBytes(k - 1, dir.blocks[k], bodiesStart)])

\* the two chromosome ids and the directory count of a region
RegionHead(r) ==
  Field(r.chromosomeId1, SIZE_OF_INT) \o Field(r.chromosomeId2, SIZE_OF_INT)
  \o Field(Len(r.directories), SIZE_OF_INT)

RegionBytes(r, bodiesStart) ==
  RegionHead(r)
  \o Concat([k \in 1..Len(r.directories) |->
               DirectoryBytes(r.directories[k], bodiesStart)])

\* where the parts of the file start: header, unread field, footer, regions,
\* bodies
LayoutOf(d) ==
  LET master == MasterOf(d)
      footerLen == 2 * SIZE_OF_INT
                   + SumLen([k \in 1..Len(d.entries) |-> EntryBytes(0, 0, 0)])
      regionsStart == master + footerLen
      regionAt == [m \in 1..Len(Regions) |->
                     regionsStart
                     + SumLen([k \in 1..(m - 1) |-> RegionBytes(Regions[k], 0)])]
      bodiesStart == regionsStart
                     + SumLen([k \in 1..Len(Regions) |->
                                 RegionBytes(Regions[k], 0)])
  IN  [master |-> master, regionAt |-> regionAt, bodiesStart |-> bodiesStart]

\* the whole file of a description; entry 0 is an absent matrix
FileBytes(d) ==
  LET at == LayoutOf(d)
      whole ==
        HeaderBytes(d, at.master) \o Field(0, SIZE_OF_INT)
        \o Field(0, SIZE_OF_INT) \o Field(Len(d.entries), SIZE_OF_INT)
        \o Concat([k \in 1..Len(d.entries) |->
             IF d.entries[k] = 0 THEN EntryBytes(0, AbsentPosition, 0)
             ELSE EntryBytes(d.entries[k], at.regionAt[d.entries[k]],
                             Len(RegionBytes(Regions[d.entries[k]], 0)))])
        \o Concat([m \in 1..Len(Regions) |->
             RegionBytes(Regions[m], at.bodiesStart)])
        \o Concat([z \in 1..Len(Bodies) |-> Image(z, Bodies[z].csize)])
  IN  Take(whole, Len(whole) - d.cut)

----------------------------------------------------------------------------
(* The inputs *)

\* the requests and the resolutions of a header
ResolutionValues == {5, 10}
Requests == {5, 10, 25}

\* descriptions that vary the header: magic, version, resolution list
HeaderInputs ==
  [magic : {MagicHIC, BadMagic}, version : {5, 6, 7},
   firstName : {NameALL},
   resolutions : SeqsOf(ResolutionValues, 1, MaxResolutions),
   entries : {<<1>>}, cut : {0}, openable : {TRUE, FALSE}]

\* descriptions that vary the body: the first chromosome, the footer's
\* entries in every order (0 is an absent matrix), the bytes the file lacks
BodyInputs ==
  [magic : {MagicHIC}, version : {6, 7},
   firstName : {NameALL, NameAll, NameChr},
   resolutions : {<<5, 10>>},
   entries : Arrangements(0..Len(Regions), MaxEntries),
   cut : 0..MaxCut, openable : {TRUE}]

NoFooterLocals == [totalEntries |-> 0, i |-> 0, fpos |-> 0, sizeInBytes |-> 0,
                   pos |-> 0]

NoMatrixLocals ==
  [chromosomeId1 |-> 0, chromosomeId2 |-> 0, totalResolutions |-> 0,
   resolutionId |-> 0, resIdx |-> 0, totalBlocks |-> 0, i |-> 0,
   blockPosition |-> 0, blockSize |-> 0, pos |-> 0]

NoInfo == [version |-> 0, master |-> 0, chromosomes |-> <<>>,
           chromosomeLengths |-> <<>>, availableResolutions |-> <<>>,
           selectedResolutionId |-> NotFound, firstChromosomeIsAll |-> FALSE]

Init ==
  /\ input \in HeaderInputs \cup BodyInputs
  /\ resolution \in Requests
  /\ input \in BodyInputs => resolution \in ResolutionValues
  /\ file = FileBytes(input)
  /\ zstreams = StreamsOf(input.version)
  /\ info = NoInfo
  /\ output = <<>>
  /\ cursor = 0
  /\ failbit = FALSE
  /\ pc = "start"
  /\ outcome = "none"
  /\ footer = NoFooterLocals
  /\ matrix = NoMatrixLocals
  /\ uncompressedBytes = <<>>

----------------------------------------------------------------------------
(* parseHiCFile *)

\* the call ends without a result
Stop(error) ==
  /\ pc' = "done"
  /\ outcome' = error

\* fin.open, info.resolution = resolution, readHeader
ParseStart ==
  /\ pc = "start"
  /\ IF ~input.openable
     THEN /\ Stop("CannotOpen")
          /\ UNCHANGED <<info, cursor>>
     ELSE LET header == readHeader(file, resolution)
          IN  /\ info' = header.info
              /\ cursor' = header.next
              /\ IF header.status = "ok"
                 THEN pc' = "checkResolution" /\ UNCHANGED outcome
                 ELSE Stop(header.status)
  /\ UNCHANGED <<input, file, zstreams, resolution, output, failbit, footer,
                 matrix, uncompressedBytes>>

\* a mutation of ResolutionMissing: the check is left out
ResolutionMissingNever(i) == FALSE

\* info.selectedResolutionId == -1
ResolutionMissing(i) == i.selectedResolutionId = NotFound

\* the check between readHeader and readFooter
CheckResolution ==
  /\ pc = "checkResolution"
  /\ IF ResolutionMissing(info)
     THEN Stop("ResolutionNotFound")
     ELSE pc' = "readFooter" /\ UNCHANGED outcome
  /\ UNCHANGED <<input, file, zstreams, resolution, info, output, cursor,
                 failbit, footer, matrix, uncompressedBytes>>

----------------------------------------------------------------------------
(* readFooter *)

\* seekg(info.master), totalBytes, totalEntries
ReadFooter ==
  /\ pc = "readFooter"
  /\ ~failbit
  /\ Readable(file, info.master, 2 * SIZE_OF_INT)
  /\ footer' = [footer EXCEPT
                  !.totalEntries = FieldAt(file, info.master + SIZE_OF_INT),
                  !.i = 0]
  /\ cursor' = info.master + 2 * SIZE_OF_INT
  /\ pc' = "footerLoop"
  /\ UNCHANGED <<input, file, zstreams, resolution, info, output, failbit,
                 outcome, matrix, uncompressedBytes>>

\* one index entry: key, position, size; pos = tellg(); readMatrix is called
FooterEntry ==
  /\ pc = "footerLoop"
  /\ footer.i < footer.totalEntries
  /\ ~failbit
  /\ LET key == GetLine(file, cursor)
     IN  /\ key.ok
         /\ Readable(file, key.next, SIZE_OF_LONG + SIZE_OF_INT)
         /\ footer' = [footer EXCEPT
                         !.fpos = FieldAt(file, key.next),
                         !.sizeInBytes = FieldAt(file, key.next + SIZE_OF_LONG),
                         !.pos = key.next + SIZE_OF_LONG + SIZE_OF_INT]
         /\ cursor' = key.next + SIZE_OF_LONG + SIZE_OF_INT
  /\ pc' = "readMatrix"
  /\ UNCHANGED <<input, file, zstreams, resolution, info, output, failbit,
                 outcome, matrix, uncompressedBytes>>

\* the loop over the entries is over: parseHiCFile returns the accumulator
FooterEnd ==
  /\ pc = "footerLoop"
  /\ footer.i >= footer.totalEntries
  /\ pc' = "done"
  /\ outcome' = "Returned"
  /\ UNCHANGED <<input, file, zstreams, resolution, info, output, cursor,
                 failbit, footer, matrix, uncompressedBytes>>

\* fin.seekg(pos, std::ios::beg): does nothing once failbit is set
RestoredCursor(fail, pos, current) == IF fail THEN current ELSE pos

\* readMatrix has returned: seekg(pos), next entry
MatrixReturn ==
  /\ pc = "matrixReturn"
  /\ cursor' = RestoredCursor(failbit, footer.pos, cursor)
  /\ footer' = [footer EXCEPT !.i = footer.i + 1]
  /\ pc' = "footerLoop"
  /\ UNCHANGED <<input, file, zstreams, resolution, info, output, failbit,
                 outcome, matrix, uncompressedBytes>>

----------------------------------------------------------------------------
(* readMatrix *)

\* a mutation of RegionSelected: the "ALL" chromosome is not skipped
RegionSelectedDiagonal(chromosomeId1, chromosomeId2, firstChromosomeIsAll) ==
  chromosomeId1 = chromosomeId2

\* the two tests a region passes before its directories are read
RegionSelected(chromosomeId1, chromosomeId2, firstChromosomeIsAll) ==
  /\ chromosomeId1 = chromosomeId2
  /\ (~firstChromosomeIsAll) \/ (chromosomeId1 # 0)

\* the call of readMatrix up to its loop: the start != -1 test, the seek, the
\* two chromosome ids, the two tests, the directory count
ReadMatrix ==
  /\ pc = "readMatrix"
  /\ IF footer.fpos = AbsentPosition
     THEN /\ pc' = "matrixReturn"
          /\ UNCHANGED <<cursor, matrix>>
     ELSE /\ ~failbit
          /\ Readable(file, footer.fpos, 2 * SIZE_OF_INT)
          /\ LET chromosomeId1 == FieldAt(file, footer.fpos)
                 chromosomeId2 == FieldAt(file, footer.fpos + SIZE_OF_INT)
             IN  IF RegionSelected(chromosomeId1, chromosomeId2,
                                   info.firstChromosomeIsAll)
                 THEN /\ Readable(file, footer.fpos + 2 * SIZE_OF_INT,
                                  SIZE_OF_INT)
                      /\ matrix' = [matrix EXCEPT
                           !.chromosomeId1 = chromosomeId1,
                           !.chromosomeId2 = chromosomeId2,
                           !.totalResolutions =
                              FieldAt(file, footer.fpos + 2 * SIZE_OF_INT),
                           !.resolutionId = 0]
                      /\ cursor' = footer.fpos + 3 * SIZE_OF_INT
                      /\ pc' = "directoryLoop"
                 ELSE /\ matrix' = [matrix EXCEPT
                           !.chromosomeId1 = chromosomeId1,
                           !.chromosomeId2 = chromosomeId2]
                      /\ cursor' = footer.fpos + 2 * SIZE_OF_INT
                      /\ pc' = "matrixReturn"
  /\ UNCHANGED <<input, file, zstreams, resolution, info, output, failbit,
                 outcome, footer, uncompressedBytes>>

\* one directory's fields: unit, resIdx, four floats, binSize, totalBlockBins,
\* totalBlockColumns, totalBlocks
ReadDirectory ==
  /\ pc = "directoryLoop"
  /\ matrix.resolutionId < matrix.totalResolutions
  /\ ~failbit
  /\ LET unit == GetLine(file, cursor)
         fields == SIZE_OF_INT + 4 * SIZE_OF_FLOAT + 4 * SIZE_OF_INT
     IN  /\ unit.ok
         /\ Readable(file, unit.next, fields)
         /\ matrix' = [matrix EXCEPT
                         !.resIdx = FieldAt(file, unit.next),
                         !.totalBlocks =
                            FieldAt(file, unit.next + fields - SIZE_OF_INT),
                         !.i = 0]
         /\ cursor' = unit.next + fields
  /\ pc' = "blockLoop"
  /\ UNCHANGED <<input, file, zstreams, resolution, info, output, failbit,
                 outcome, footer, uncompressedBytes>>

\* the loop over the directories is over: readMatrix returns
DirectoriesEnd ==
  /\ pc = "directoryLoop"
  /\ matrix.resolutionId >= matrix.totalResolutions
  /\ pc' = "matrixReturn"
  /\ UNCHANGED <<input, file, zstreams, resolution, info, output, cursor,
                 failbit, outcome, footer, matrix, uncompressedBytes>>

\* a mutation of DirectorySelected: the index stored in the file decides
DirectorySelectedStored(resolutionId, resIdx, selectedResolutionId) ==
  resIdx = selectedResolutionId

\* resolutionId == info.selectedResolutionId: the loop counter decides
DirectorySelected(resolutionId, resIdx, selectedResolutionId) ==
  resolutionId = selectedResolutionId

\* one block pointer: blockId, blockPosition, blockSize; in the selected
\* directory pos = tellg() and readBlock is called
ReadBlockPointer ==
  /\ pc = "blockLoop"
  /\ matrix.i < matrix.totalBlocks
  /\ ~failbit
  /\ Readable(file, cursor, 2 * SIZE_OF_INT + SIZE_OF_LONG)
  /\ cursor' = cursor + 2 * SIZE_OF_INT + SIZE_OF_LONG
  /\ IF DirectorySelected(matrix.resolutionId, matrix.resIdx,
                          info.selectedResolutionId)
     THEN /\ matrix' = [matrix EXCEPT
                          !.blockPosition = FieldAt(file, cursor + SIZE_OF_INT),
                          !.blockSize =
                             FieldAt(file, cursor + SIZE_OF_INT + SIZE_OF_LONG),
                          !.pos = cursor + 2 * SIZE_OF_INT + SIZE_OF_LONG]
          /\ pc' = "readBlock"
     ELSE /\ matrix' = [matrix EXCEPT
                          !.blockPosition = FieldAt(file, cursor + SIZE_OF_INT),
                          !.blockSize =
                             FieldAt(file, cursor + SIZE_OF_INT + SIZE_OF_LONG),
                          !.i = matrix.i + 1]
          /\ pc' = "blockLoop"
  /\ UNCHANGED <<input, file, zstreams, resolution, info, output, failbit,
                 outcome, footer, uncompressedBytes>>

\* the loop over the blocks is over: next directory
BlocksEnd ==
  /\ pc = "blockLoop"
  /\ matrix.i >= matrix.totalBlocks
  /\ matrix' = [matrix EXCEPT !.resolutionId = matrix.resolutionId + 1]
  /\ pc' = "directoryLoop"
  /\ UNCHANGED <<input, file, zstreams, resolution, info, output, cursor,
                 failbit, outcome, footer, uncompressedBytes>>

\* readBlock has returned: seekg(pos), next block
BlockReturn ==
  /\ pc = "blockReturn"
  /\ cursor' = RestoredCursor(failbit, matrix.pos, cursor)
  /\ matrix' = [matrix EXCEPT !.i = matrix.i + 1]
  /\ pc' = "blockLoop"
  /\ UNCHANGED <<input, file, zstreams, resolution, info, output, failbit,
                 outcome, footer, uncompressedBytes>>

----------------------------------------------------------------------------
(* readBlock *)

\* the whole of readBlock: the size test, the two buffers, seekg and read,
\* inflate, the decoding, the append.  new char[size] of a negative size
\* throws.  A short read sets failbit and leaves the rest of compressedBytes
\* uninitialised.
ReadBlock ==
  /\ pc = "readBlock"
  /\ IF matrix.blockSize = 0
     THEN /\ pc' = "blockReturn"
          /\ UNCHANGED <<output, cursor, failbit, outcome, uncompressedBytes>>
     ELSE IF matrix.blockSize < 0
     THEN /\ Stop("BadAlloc")
          /\ UNCHANGED <<output, cursor, failbit, uncompressedBytes>>
     ELSE LET position == matrix.blockPosition
              size == matrix.blockSize
              whole == ~failbit /\ Readable(file, position, size)
              bytes == IF whole THEN SubSeq(file, position + 1, position + size)
                       ELSE IF failbit \/ position < 0 \/ position >= Len(file)
                       THEN <<>>
                       ELSE SubSeq(file, position + 1, Len(file))
              buffers == IF whole THEN {Inflate(bytes, size, zstreams)}
                         ELSE ShortInflate(bytes, position, size, zstreams)
          IN  \E buf \in buffers, g \in GarbageValues :
                LET decoded == DecodeBlock(buf, info.version, g)
                IN  /\ uncompressedBytes' = buf
                    /\ failbit' = (failbit \/ ~whole)
                    /\ cursor' = IF whole THEN position + size
                                 ELSE IF failbit \/ position < 0 THEN cursor
                                 ELSE IF position > Len(file) THEN position
                                 ELSE Len(file)
                    /\ IF decoded.status = "ok"
                       THEN /\ output' = InsertAtEnd(output,
                                 Tagged(decoded.bins, matrix.chromosomeId1))
                            /\ pc' = "blockReturn"
                            /\ UNCHANGED outcome
                       ELSE /\ Stop(decoded.status)
                            /\ UNCHANGED output
  /\ UNCHANGED <<input, file, zstreams, resolution, info, footer, matrix>>

----------------------------------------------------------------------------
(* Reads of fin that come up short outside readBlock *)

\* the step at pc reads from fin
ReadPending ==
  \/ pc = "readFooter"
  \/ pc = "footerLoop" /\ footer.i < footer.totalEntries
  \/ pc = "readMatrix" /\ footer.fpos # AbsentPosition
  \/ pc = "directoryLoop" /\ matrix.resolutionId < matrix.totalResolutions
  \/ pc = "blockLoop" /\ matrix.i < matrix.totalBlocks

\* the step at pc gets every byte it reads
StepWhole ==
  /\ ~failbit
  /\ pc = "readFooter" => Readable(file, info.master, 2 * SIZE_OF_INT)
  /\ pc = "footerLoop" =>
       /\ GetLine(file, cursor).ok
       /\ Readable(file, GetLine(file, cursor).next, SIZE_OF_LONG + SIZE_OF_INT)
  /\ pc = "readMatrix" =>
       /\ Readable(file, footer.fpos, 2 * SIZE_OF_INT)
       /\ RegionSelected(FieldAt(file, footer.fpos),
                         FieldAt(file, footer.fpos + SIZE_OF_INT),
                         info.firstChromosomeIsAll)
          => Readable(file, footer.fpos + 2 * SIZE_OF_INT, SIZE_OF_INT)
  /\ pc = "directoryLoop" =>
       /\ GetLine(file, cursor).ok
       /\ Readable(file, GetLine(file, cursor).next,
                   SIZE_OF_INT + 4 * SIZE_OF_FLOAT + 4 * SIZE_OF_INT)
  /\ pc = "blockLoop" =>
       Readable(file, cursor, 2 * SIZE_OF_INT + SIZE_OF_LONG)

\* what the accumulator can gain once uninitialised locals are used
GarbageTails ==
  {<<>>} \cup {<<[chromosome |-> g, bin1 |-> g, bin2 |-> g, count |-> g]>> :
                 g \in GarbageValues}

\* No read is checked: a read that comes up short leaves its locals
\* uninitialised and the code goes on with them.  Their use is undefined:
\* the call returns, with the accumulator as it is or with garbage added, or
\* it crashes.
ShortRead ==
  /\ ReadPending
  /\ ~StepWhole
  /\ \E end \in {"Returned", "Crashed"}, tail \in GarbageTails :
       /\ pc' = "done"
       /\ outcome' = end
       /\ output' = output \o tail
  /\ failbit' = TRUE
  /\ UNCHANGED <<input, file, zstreams, resolution, info, cursor, footer,
                 matrix, uncompressedBytes>>

----------------------------------------------------------------------------
(* The call as a whole *)

Next ==
  \/ ParseStart
  \/ CheckResolution
  \/ ReadFooter
  \/ FooterEntry
  \/ FooterEnd
  \/ MatrixReturn
  \/ ReadMatrix
  \/ ReadDirectory
  \/ DirectoriesEnd
  \/ ReadBlockPointer
  \/ BlocksEnd
  \/ ReadBlock
  \/ BlockReturn
  \/ ShortRead

Spec == Init /\ [][Next]_vars

----------------------------------------------------------------------------
(* readBlock alone, on blocks drawn from bounded sets *)

ColumnChoices == {[x |-> 0, c |-> 3], [x |-> 2, c |-> ShortSentinel]}

RowLists ==
  {[i \in 1..Len(columnLists) |-> [y |-> i, columns |-> columnLists[i]]] :
     columnLists \in SeqsOf(SeqsOf(ColumnChoices, 0, MaxColumns), 0, MaxRows)}

ListBlocks ==
  [type : {1}, useShort : {0, 1}, binXOffset : {10}, binYOffset : {20},
   w : {0}, points : {<<>>}, rows : RowLists]

DenseBlocks ==
  {d \in [type : {2}, useShort : {0, 1}, binXOffset : {10},
          binYOffset : {20}, w : -1..3, rows : {<<>>},
          points : SeqsOf({4, ShortSentinel, FloatSentinel}, 0, MaxPoints)] :
     \A k \in 1..Len(d.points) :
       d.points[k] # (IF d.useShort = 0 THEN FloatSentinel
                      ELSE ShortSentinel)}

OtherBlocks ==
  [type : {3}, useShort : {0}, binXOffset : {10}, binYOffset : {20},
   w : {0}, points : {<<>>}, rows : {<<>>}]

PriorRecord == [chromosome |-> 1, bin1 |-> 8, bin2 |-> 9, count |-> 1]

\* a block, the file's version, whether the compressed size is a tenth of
\* the block's or less, the chromosome, the accumulator before the call
BlockInputs ==
  {b \in [block : ListBlocks \cup DenseBlocks \cup OtherBlocks,
          context : {[version |-> 7, tight |-> FALSE, chromosomeId |-> 0,
                      prior |-> <<>>],
                     [version |-> 8, tight |-> FALSE, chromosomeId |-> 2,
                      prior |-> <<PriorRecord>>],
                     [version |-> 7, tight |-> TRUE, chromosomeId |-> 1,
                      prior |-> <<>>],
                     [version |-> 6, tight |-> FALSE, chromosomeId |-> 1,
                      prior |-> <<PriorRecord>>]}] :
     b.context.version < BlockHeaderVersion => b.block.type = 1}

\* the least compressed size whose buffer holds the block, or one less
CompressedSize(payload, tight) ==
  LET least == (Len(payload) + BufferFactor - 1) \div BufferFactor
  IN  IF tight /\ least > 1 THEN least - 1 ELSE least

InitBlock ==
  /\ input \in BlockInputs
  /\ LET payload == EncodeBlock(input.block, input.context.version)
         csize == CompressedSize(payload, input.context.tight)
     IN  /\ file = Image(1, csize)
         /\ zstreams = <<[csize |-> csize, payload |-> payload]>>
         /\ matrix = [NoMatrixLocals EXCEPT
                        !.chromosomeId1 = input.context.chromosomeId,
                        !.chromosomeId2 = input.context.chromosomeId,
                        !.blockPosition = 0,
                        !.blockSize = csize]
  /\ resolution = 5
  /\ info = [NoInfo EXCEPT !.version = input.context.version]
  /\ output = input.context.prior
  /\ cursor = 0
  /\ failbit = FALSE
  /\ pc = "readBlock"
  /\ outcome = "none"
  /\ footer = NoFooterLocals
  /\ uncompressedBytes = <<>>

NextBlock == ReadBlock

SpecBlock == InitBlock /\ [][NextBlock]_vars

----------------------------------------------------------------------------
(* Terms of the properties *)

\* the ways a call ends without returning a result
FailureOutcomes ==
  {"CannotOpen", "InvalidFormat", "UnsupportedVersion", "ResolutionNotFound",
   "BadAlloc", "LengthError", "Crashed"}

\* readHeader ran to its end
HeaderRead == pc # "start" /\ outcome \notin {"CannotOpen", "InvalidFormat",
                                                "UnsupportedVersion"}

\* the first chromosome of the file is the synthetic one
AllFirst == input.firstName \in {NameALL, NameAll}

\* the largest and the smallest 0-based index at which list holds value
LastIndexOf(list, value) ==
  IF \E i \in 1..Len(list) : list[i] = value
  THEN (CHOOSE i \in 1..Len(list) :
          list[i] = value /\ \A j \in (i + 1)..Len(list) : list[j] # value) - 1
  ELSE NotFound

FirstIndexOf(list, value) ==
  IF \E i \in 1..Len(list) : list[i] = value
  THEN (CHOOSE i \in 1..Len(list) :
          list[i] = value /\ \A j \in 1..(i - 1) : list[j] # value) - 1
  ELSE NotFound

\* the count a stored value stands for
ExpectedCount(useShort, c) ==
  IF useShort = 0 THEN c ELSE IF c >= 0 THEN c \div 2 ELSE -((-c) \div 2)

\* the records a list-of-rows block stands for: one per entry, in order
ExpectedList(d, chromosomeId) ==
  LET entries == ListEntries(d)
  IN  [k \in 1..Len(entries) |->
         [chromosome |-> chromosomeId,
          bin1 |-> d.binXOffset + entries[k].x,
          bin2 |-> d.binYOffset + entries[k].y,
          count |-> ExpectedCount(d.useShort, entries[k].c)]]

\* the point indices (0-based) of a dense block of shorts that hold a value
PresentPoints(d) ==
  SelectSeq([k \in 1..Len(d.points) |-> k - 1],
            LAMBDA i : d.points[i + 1] # ShortSentinel)

\* the records a dense block of shorts of stride w > 0 stands for
ExpectedDense(d, chromosomeId) ==
  LET present == PresentPoints(d)
  IN  [k \in 1..Len(present) |->
         [chromosome |-> chromosomeId,
          bin1 |-> d.binXOffset + (present[k] % d.w),
          bin2 |-> d.binYOffset + (present[k] \div d.w),
          count |-> d.points[present[k] + 1]]]

\* the records of body z of a file of the given version
BodyRecords(z, version, chromosomeId) ==
  LET d == Bodies[BodyIn(z, version)]
  IN  IF d.type = 1 THEN Range(ExpectedList(d, chromosomeId))
      ELSE Range(ExpectedDense(d, chromosomeId))

\* a region whose directories are read
Processed(r) ==
  /\ r.chromosomeId1 = r.chromosomeId2
  /\ ~(AllFirst /\ r.chromosomeId1 = 0)

\* the records of region m at the directory in position `selected` (0-based)
RegionRecords(m, selected, version) ==
  LET r == Regions[m]
  IN  IF Processed(r) /\ selected + 1 \in 1..Len(r.directories)
      THEN UNION {BodyRecords(r.directories[selected + 1].blocks[b].body,
                              version, r.chromosomeId1) :
                    b \in {b \in 1..Len(r.directories[selected + 1].blocks) :
                             r.directories[selected + 1].blocks[b].size
                               = "exact"}}
      ELSE {}

\* the file is whole and every block size of its listed regions is >= 0
WellFormed ==
  /\ input.openable /\ input.magic = MagicHIC /\ input.version >= MinVersion
  /\ resolution \in Range(input.resolutions)
  /\ input.cut = 0
  /\ \A k \in 1..Len(input.entries) :
       input.entries[k] # 0 =>
         \A dir \in Range(Regions[input.entries[k]].directories) :
           \A block \in Range(dir.blocks) : block.size # "negative"

\* the offset after index entry k (1-based) of the footer; k = 0: of the
\* footer's two counts
EntryEnd(k) ==
  LayoutOf(input).master + 2 * SIZE_OF_INT
  + k * Len(EntryBytes(0, 0, 0))

\* the offset after block pointer b (1-based; 0: after the directory's own
\* fields) of the directory in position dir (0-based) of region m
PointerEnd(m, dir, b) ==
  LayoutOf(input).regionAt[m] + Len(RegionHead(Regions[m]))
  + SumLen([j \in 1..dir |-> DirectoryBytes(Regions[m].directories[j], 0)])
  + Len(DirectoryHead(Regions[m].directories[dir + 1]))
  + b * Len(PointerBytes(0, [body |-> 1, size |-> "zero"], 0))

\* a block pointer of a listed, processed region, in the directory that is
\* selected by position and by stored index alike, names bytes past the end
TruncatedSelectedBlock ==
  \E k \in 1..Len(input.entries) :
    /\ input.entries[k] # 0
    /\ Processed(Regions[input.entries[k]])
    /\ \E j \in 1..Len(Regions[input.entries[k]].directories) :
         LET dir == Regions[input.entries[k]].directories[j]
         IN  /\ j - 1 = info.selectedResolutionId
             /\ dir.resIdx = info.selectedResolutionId
             /\ \E block \in Range(dir.blocks) :
                  /\ PointerSize(block) > 0
                  /\ BodyOffset(block.body, LayoutOf(input).bodiesStart)
                     + PointerSize(block) > Len(file)

----------------------------------------------------------------------------
(* The properties *)

\* C1: when the requested resolution is none of the header's, the call ends
\* in a failure (ResolutionNotFound when the header itself is valid), and in
\* that run readFooter is never entered, fin is never moved to the master
\* offset and the accumulator stays empty.
C1_NotFoundStopsBeforeFooter ==
  resolution \notin Range(input.resolutions) =>
    /\ pc \in {"start", "checkResolution", "done"}
    /\ cursor < LayoutOf(input).master
    /\ footer = NoFooterLocals
    /\ output = <<>>
    /\ pc = "done" => outcome \in FailureOutcomes
    /\ (pc = "done" /\ HeaderRead) => outcome = "ResolutionNotFound"

C1_Witness ==
  /\ pc = "done"
  /\ outcome = "ResolutionNotFound"
  /\ resolution \notin Range(info.availableResolutions)
  /\ Len(info.availableResolutions) = 2

\* C2 (as claimed): a file in which a block pointer of the selected
\* resolution names bytes past the end of the file is refused: the call
\* ends in a failure and never returns a record list.
C2_TruncatedBlockFails ==
  (pc = "done" /\ TruncatedSelectedBlock) => outcome \in FailureOutcomes

C5_SkippedRegionEmitsNothing ==
  [][(/\ pc = "readMatrix"
      /\ footer.fpos # AbsentPosition
      /\ ~failbit
      /\ Readable(file, footer.fpos, 2 * SIZE_OF_INT)
      /\ \/ FieldAt(file, footer.fpos)
              # FieldAt(file, footer.fpos + SIZE_OF_INT)
         \/ AllFirst /\ FieldAt(file, footer.fpos) = 0)
     => (/\ pc' = "matrixReturn"
         /\ output' = output
         /\ cursor' = footer.fpos + 2 * SIZE_OF_INT)]_vars

C5_Witness ==
  /\ pc = "matrixReturn"
  /\ ~failbit
  /\ footer.fpos # AbsentPosition
  /\ cursor = footer.fpos + 2 * SIZE_OF_INT
  /\ AllFirst
  /\ matrix.chromosomeId1 = 0
  /\ matrix.chromosomeId2 = 0
  /\ Len(Regions[input.entries[footer.i + 1]].directories) > 0

\* C6: for a well-formed file the call returns, and the records it returns,
\* taken as a set, are those of the selected directory of every listed,
\* processed region: a function of which regions the footer lists, the same
\* for every order in which it lists them.
C6_EntryOrderIrrelevant ==
  (pc = "done" /\ WellFormed) =>
    /\ outcome = "Returned"
    /\ Range(output)
       = UNION {RegionRecords(m, info.selectedResolutionId, input.version) :
                  m \in Range(input.entries) \ {0}}

C6_Witness ==
  /\ pc = "done"
  /\ WellFormed
  /\ outcome = "Returned"
  /\ Len(input.entries) = 2
  /\ input.entries[1] > input.entries[2]
  /\ \A k \in 1..2 :
       /\ input.entries[k] # 0
       /\ RegionRecords(input.entries[k], info.selectedResolutionId,
                        input.version) # {}
  /\ \E k \in 1..Len(output) : output[k].chromosome # output[1].chromosome

\* C7 (amended): in a processed region, a block pointer that was read leads
\* to readBlock exactly when the position of its directory among the
\* region's directories (the loop counter) equals selectedResolutionId; the
\* index stored in the directory is read and plays no part.
C7_BlockReadIffPositionSelected ==
  [][(pc = "blockLoop" /\ cursor' = cursor + SIZE_OF_LONG + 2 * SIZE_OF_INT)
     => ((pc' = "readBlock")
           <=> (matrix.resolutionId = info.selectedResolutionId))]_vars

C7_Witness ==
  /\ pc = "readBlock"
  /\ ~failbit
  /\ matrix.resIdx # matrix.resolutionId
  /\ matrix.resolutionId = info.selectedResolutionId
  /\ matrix.blockSize > 0

\* C7 (as claimed): a block pointer that was read leads to readBlock exactly
\* when the index stored in its directory equals selectedResolutionId.
C7_BlockReadIffStoredSelected ==
  [][(pc = "blockLoop" /\ cursor' = cursor + SIZE_OF_LONG + 2 * SIZE_OF_INT)
     => ((pc' = "readBlock")
           <=> (matrix.resIdx = info.selectedResolutionId))]_vars

\* C8 (amended): after readHeader, availableResolutions holds the header's
\* BP resolutions in file order and selectedResolutionId is the 0-based
\* index of the last one equal to the requested value, or -1 when there is
\* none.
C8_LastMatchSelected ==
  HeaderRead =>
    /\ info.availableResolutions = input.resolutions
    /\ info.selectedResolutionId = LastIndexOf(input.resolutions, resolution)

C8_Witness ==
  /\ HeaderRead
  /\ Len(input.resolutions) = 2
  /\ input.resolutions[1] = resolution
  /\ input.resolutions[2] = resolution
  /\ info.selectedResolutionId = 1

\* C8 (as claimed): after readHeader, selectedResolutionId is the 0-based
\* index of the first resolution equal to the requested value, or -1.
C8_FirstMatchSelected ==
  HeaderRead =>
    info.selectedResolutionId = FirstIndexOf(input.resolutions, resolution)

\* C9 (as claimed): readBlock called with a size that is zero or negative
\* returns at once: no record is appended, fin is not moved and nothing is
\* allocated or thrown.
C9_NonPositiveSizeIsNoOp ==
  [][(pc = "readBlock" /\ matrix.blockSize <= 0)
     => (/\ pc' = "blockReturn"
         /\ output' = output
         /\ cursor' = cursor
         /\ failbit' = failbit
         /\ outcome' = outcome)]_vars

\* C10 (as claimed): after every readMatrix call the cursor is right after
\* the index entry that named the region, and after every readBlock call
\* right after the block pointer that named the body, wherever the region
\* and the body lie in the file; so entry k and pointer k are read from
\* their own offsets.
C10_CursorAlwaysRestored ==
  /\ pc = "footerLoop" => cursor = EntryEnd(footer.i)
  /\ pc = "blockLoop" =>
       cursor = PointerEnd(input.entries[footer.i + 1], matrix.resolutionId,
                           matrix.i)

\* The restoring seeks do put the cursor back for as long as no read has
\* come up short: the stream's failure is the only way the offsets are lost.
CursorRestoredWhileGood ==
  /\ (pc = "footerLoop" /\ ~failbit) => cursor = EntryEnd(footer.i)
  /\ (pc = "blockLoop" /\ ~failbit) =>
       cursor = PointerEnd(input.entries[footer.i + 1], matrix.resolutionId,
                           matrix.i)

\* The stream fails only on a file that ends before its last block body.
FailureOnlyFromTruncation == failbit => input.cut > 0

====
